---- MODULE Spec2Model ----
(***************************************************************************)
(* Model of IMR/app.py: the Streamlit script of the cashier profit/loss    *)
(* dashboard.  One execution of the script (a "run") loads the uploaded    *)
(* file, aggregates it per item, reports, asks the chat-completion service *)
(* for a commentary and serves the chat.  st.session_state survives from   *)
(* one run to the next; everything else is recomputed by each run.         *)
(***************************************************************************)
EXTENDS Integers, Sequences, FiniteSets, TLC

VARIABLES
    client,         \* TRUE iff GROQ_API_KEY is set (a Groq client exists)
    uploaded_file,  \* value of the file_uploader widget
    session_state,  \* st.session_state: key -> value
    nrequests,      \* requests issued to the chat-completion service so far
    outcomes,       \* outcome of each chat question since the history was seeded
    df,             \* the DataFrame of the last run
    summary,        \* the Item Summary of the last run
    totals,         \* total_modal / total_penjualan / total_keuntungan
    best_item,      \* summary.iloc[0] of the last run
    worst_item,     \* summary.iloc[-1] of the last run
    ai_text,        \* result of generate_ai_commentary in the last run
    question,       \* value of st.chat_input in the last run
    messages,       \* messages= argument of the chat request of the last run
    shown,          \* elements the last run rendered
    fault           \* exception that ended the last run, if any

vars == <<client, uploaded_file, session_state, nrequests, outcomes, df,
          summary, totals, best_item, worst_item, ai_text, question,
          messages, shown, fault>>

----------------------------------------------------------------------------
(* Bounds *)

MaxRows == 3
MaxQuestions == 3
MaxRequests == 8

----------------------------------------------------------------------------
(* Tables *)

required_cols == {"Nama Barang", "Harga Modal", "Harga Jual", "Jumlah Terjual"}

DerivedCols == {"Total Modal", "Total Penjualan", "Keuntungan"}

Names == {"Widget", "Gadget", "Gizmo"}

\* <<Harga Modal, Harga Jual, Jumlah Terjual>>: profits 4, -1, 1, 0 and 2.
Deals == {<<1, 3, 2>>, <<2, 1, 1>>, <<2, 3, 1>>, <<1, 1, 2>>, <<1, 3, 1>>}

MkRow(n, m, j, q) ==
    ("Nama Barang" :> n) @@ ("Harga Modal" :> m) @@ ("Harga Jual" :> j)
        @@ ("Jumlah Terjual" :> q)

Rows == {MkRow(n, d[1], d[2], d[3]) : n \in Names, d \in Deals}

DropCol(r, c) == [k \in (DOMAIN r) \ {c} |-> r[k]]

NoDf == [columns |-> {}, rows |-> <<>>]

NoItem == [Barang |-> "", Total_Modal |-> 0, Total_Penjualan |-> 0, Keuntungan |-> 0]

NoTotals == [total_modal |-> 0, total_penjualan |-> 0, total_keuntungan |-> 0]

----------------------------------------------------------------------------
(* Profit aggregation: lines 80-118 *)

HasRequiredCols(columns) == \A col \in required_cols : col \in columns

\* Mutation: the profit subtraction the wrong way round.
AddDerivedSwapped(r) ==
    LET tm == r["Harga Modal"] * r["Jumlah Terjual"]
        tp == r["Harga Jual"] * r["Jumlah Terjual"]
    IN  r @@ ("Total Modal" :> tm) @@ ("Total Penjualan" :> tp)
          @@ ("Keuntungan" :> tm - tp)

AddDerived(r) ==
    LET tm == r["Harga Modal"] * r["Jumlah Terjual"]
        tp == r["Harga Jual"] * r["Jumlah Terjual"]
    IN  r @@ ("Total Modal" :> tm) @@ ("Total Penjualan" :> tp)
          @@ ("Keuntungan" :> tp - tm)

Derive(d) ==
    [columns |-> d.columns \cup DerivedCols,
     rows |-> [i \in 1..Len(d.rows) |-> AddDerived(d.rows[i])]]

RECURSIVE SumCol(_, _, _)
SumCol(rows, name, col) ==
    IF rows = <<>> THEN 0
    ELSE (IF Head(rows)["Nama Barang"] = name THEN Head(rows)[col] ELSE 0)
           + SumCol(Tail(rows), name, col)

GroupNames(rows) == {rows[i]["Nama Barang"] : i \in 1..Len(rows)}

\* The orders in which GROUP BY may emit the groups (SQL leaves it open).
GroupOrders(rows) ==
    LET S == GroupNames(rows)
    IN  {o \in [1..Cardinality(S) -> S] : \A i, j \in DOMAIN o : i # j => o[i] # o[j]}

GroupBy(rows, order) ==
    [i \in 1..Len(order) |->
        [Barang          |-> order[i],
         Total_Modal     |-> SumCol(rows, order[i], "Total Modal"),
         Total_Penjualan |-> SumCol(rows, order[i], "Total Penjualan"),
         Keuntungan      |-> SumCol(rows, order[i], "Keuntungan")]]

RECURSIVE InsertDesc(_, _)
InsertDesc(sorted, x) ==
    IF sorted = <<>> THEN <<x>>
    ELSE IF Head(sorted).Keuntungan >= x.Keuntungan
         THEN <<Head(sorted)>> \o InsertDesc(Tail(sorted), x)
         ELSE <<x>> \o sorted

RECURSIVE OrderByDesc(_)
OrderByDesc(s) ==
    IF s = <<>> THEN <<>>
    ELSE InsertDesc(OrderByDesc(SubSeq(s, 1, Len(s) - 1)), s[Len(s)])

\* Mutation: the query without its ORDER BY.
QueryUnordered(d, order) == GroupBy(d.rows, order)

Query(d, order) == OrderByDesc(GroupBy(d.rows, order))

RECURSIVE ColumnSum(_, _)
ColumnSum(s, col) ==
    IF s = <<>> THEN 0 ELSE Head(s)[col] + ColumnSum(Tail(s), col)

GrandTotals(s) ==
    [total_modal      |-> ColumnSum(s, "Total_Modal"),
     total_penjualan  |-> ColumnSum(s, "Total_Penjualan"),
     total_keuntungan |-> ColumnSum(s, "Keuntungan")]

\* Mutation: the best item read from the wrong end.
BestFromEnd(s) == s[Len(s)]

Best(s) == s[1]

Worst(s) == s[Len(s)]

Banner(t) == IF t.total_keuntungan > 0 THEN "success" ELSE "error"

----------------------------------------------------------------------------
(* Uploaded files: lines 64-70 *)

NoFile == [stem |-> "", ext |-> "", format |-> "", columns |-> {}, rows |-> <<>>]

\* Line 67: the extension of the name alone picks the reader.
Reader(file) == IF file.ext = "csv" THEN "csv" ELSE "excel"

\* pd.read_csv / pd.read_excel raise when the bytes are not in the reader's format.
Parses(file) == file.format = Reader(file)

Load(file) == [columns |-> file.columns, rows |-> file.rows]

FileA ==
    [stem |-> "a", ext |-> "csv", format |-> "csv", columns |-> required_cols,
     rows |-> <<MkRow("Widget", 1, 3, 2), MkRow("Gadget", 2, 1, 2)>>]

FileB ==
    [stem |-> "b", ext |-> "xlsx", format |-> "excel", columns |-> required_cols,
     rows |-> <<MkRow("Gizmo", 1, 3, 1), MkRow("Gizmo", 2, 3, 2)>>]

FileEmpty ==
    [stem |-> "empty", ext |-> "csv", format |-> "csv", columns |-> required_cols,
     rows |-> <<>>]

FileBad ==
    [stem |-> "bad", ext |-> "xls", format |-> "csv", columns |-> required_cols,
     rows |-> <<MkRow("Widget", 1, 3, 2)>>]

FileMissing(c) ==
    [stem |-> "missing", ext |-> "csv", format |-> "csv",
     columns |-> required_cols \ {c},
     rows |-> <<DropCol(MkRow("Widget", 1, 3, 2), c)>>]

Files == {FileA, FileB, FileEmpty, FileBad} \cup {FileMissing(c) : c \in required_cols}

Tables == UNION {[1..n -> Rows] : n \in 0..MaxRows}

TableFile(t) ==
    [stem |-> "t", ext |-> "csv", format |-> "csv", columns |-> required_cols,
     rows |-> t]

OrdersFor(file) ==
    IF Parses(file) /\ HasRequiredCols(file.columns)
    THEN GroupOrders(file.rows)
    ELSE {<<>>}

----------------------------------------------------------------------------
(* The chat-completion service: an external collaborator *)

Replies == {"r1", "r2"}

Questions == {"q1"}

NoQuestion == ""

NoText == ""

Persona == "Anda adalah asisten kasir dan analis keuangan bisnis kecil."

Sentinel == "AI Commentary tidak aktif (API Key belum diatur)."

ErrorCommentary == "Error AI Commentary"

\* What one call of client.chat.completions.create may do: reply or raise.
ServiceOutcomes == {[ok |-> TRUE, content |-> r] : r \in Replies}
                       \cup {[ok |-> FALSE, content |-> "e"]}

Turn(role, content) == [role |-> role, content |-> content]

----------------------------------------------------------------------------
(* AI commentary: lines 35-59 *)

\* Mutation: the "if not client" guard forgotten.
generate_ai_commentary_unguarded(cl, sales_summary, out) ==
    IF out.ok
    THEN [text |-> out.content, calls |-> 1]
    ELSE [text |-> ErrorCommentary, calls |-> 1]

generate_ai_commentary(cl, sales_summary, out) ==
    IF ~cl
    THEN [text |-> Sentinel, calls |-> 0]
    ELSE IF out.ok
         THEN [text |-> out.content, calls |-> 1]
         ELSE [text |-> ErrorCommentary, calls |-> 1]

----------------------------------------------------------------------------
(* Chat mode: lines 149-177 *)

NoSession == [k \in {} |-> <<>>]

\* Mutation: the two seeded turns in the wrong order.
SeedHistorySwapped(ss, text) ==
    IF "chat_history" \in DOMAIN ss
    THEN ss
    ELSE ("chat_history" :> <<Turn("assistant", text), Turn("system", Persona)>>) @@ ss

SeedHistory(ss, text) ==
    IF "chat_history" \in DOMAIN ss
    THEN ss
    ELSE ("chat_history" :> <<Turn("system", Persona), Turn("assistant", text)>>) @@ ss

\* Mutation: the user turn taken back when the request fails.
ChatHandlerRollback(cl, history, q, out) ==
    LET appended == Append(history, Turn("user", q))
    IN  IF ~cl
        THEN [chat_history |-> history, messages |-> <<>>, calls |-> 0,
              ok |-> FALSE]
        ELSE IF out.ok
             THEN [chat_history |-> Append(appended, Turn("assistant", out.content)),
                   messages |-> appended, calls |-> 1, ok |-> TRUE]
             ELSE [chat_history |-> history, messages |-> appended, calls |-> 1,
                   ok |-> FALSE]

\* Mutation: the request issued before the user turn is appended.
ChatHandlerStale(cl, history, q, out) ==
    LET appended == Append(history, Turn("user", q))
    IN  IF ~cl
        THEN [chat_history |-> appended, messages |-> <<>>, calls |-> 0,
              ok |-> FALSE]
        ELSE IF out.ok
             THEN [chat_history |-> Append(appended, Turn("assistant", out.content)),
                   messages |-> history, calls |-> 1, ok |-> TRUE]
             ELSE [chat_history |-> appended, messages |-> history, calls |-> 1,
                   ok |-> FALSE]

\* Lines 163-177.  Without a client, client.chat raises AttributeError on
\* None inside the try block: no request leaves the process.
ChatHandler(cl, history, q, out) ==
    LET appended == Append(history, Turn("user", q))
    IN  IF ~cl
        THEN [chat_history |-> appended, messages |-> <<>>, calls |-> 0,
              ok |-> FALSE]
        ELSE IF out.ok
             THEN [chat_history |-> Append(appended, Turn("assistant", out.content)),
                   messages |-> appended, calls |-> 1, ok |-> TRUE]
             ELSE [chat_history |-> appended, messages |-> appended, calls |-> 1,
                   ok |-> FALSE]

----------------------------------------------------------------------------
(* One execution of the script: lines 64-182 *)

Blank ==
    [df |-> NoDf, summary |-> <<>>, totals |-> NoTotals, best_item |-> NoItem,
     worst_item |-> NoItem, ai_text |-> NoText, messages |-> <<>>, shown |-> {},
     fault |-> "none", calls |-> 0, asked |-> <<>>]

\* Mutation: the informational prompt shown in place of the warning.
WarnMissingAsInfo(base, file) ==
    [base EXCEPT !.df = Load(file), !.shown = {"preview", "info"}]

\* Lines 179-180: the branch taken when a required column is absent.
WarnMissing(base, file) ==
    [base EXCEPT !.df = Load(file), !.shown = {"preview", "warning"}]

Script(cl, file, ss, q, order, o1, o2) ==
    LET base == Blank @@ [session_state |-> ss]
    IN
    IF file = NoFile
    THEN [base EXCEPT !.shown = {"info"}]
    ELSE IF ~Parses(file)
    THEN [base EXCEPT !.fault = "ReadError"]
    ELSE IF ~HasRequiredCols(Load(file).columns)
    THEN WarnMissing(base, file)
    ELSE
    LET d == Derive(Load(file))
        s == Query(d, order)
        t == GrandTotals(s)
    IN
    IF s = <<>>
    THEN [base EXCEPT !.df = d, !.summary = s, !.totals = t,
                      !.shown = {"preview", "charts"}, !.fault = "IndexError"]
    ELSE
    LET ai    == generate_ai_commentary(cl, s, o1)
        ss1   == SeedHistory(ss, ai.text)
        chat  == ChatHandler(cl, ss1["chat_history"], q, o2)
        view  == {"preview", "charts", "commentary", Banner(t), "ai_text",
                  "chat_history", "chat_input"}
        done  == [base EXCEPT !.df = d, !.summary = s, !.totals = t,
                              !.best_item = Best(s), !.worst_item = Worst(s),
                              !.ai_text = ai.text, !.calls = ai.calls,
                              !.session_state = ss1, !.shown = view]
    IN
    IF q = NoQuestion
    THEN done
    ELSE [done EXCEPT !.session_state = [ss1 EXCEPT !["chat_history"] = chat.chat_history],
                      !.messages = chat.messages,
                      !.calls = ai.calls + chat.calls,
                      !.asked = IF chat.ok THEN <<"ok">> ELSE <<"fail">>,
                      !.shown = view \cup {IF chat.ok THEN "answer" ELSE "chat_error"}]

\* The service is consulted only where the script calls it.
CommentaryOutcomes == IF client THEN ServiceOutcomes ELSE {[ok |-> FALSE, content |-> "e"]}

ChatOutcomes(q) ==
    IF client /\ q # NoQuestion THEN ServiceOutcomes ELSE {[ok |-> FALSE, content |-> "e"]}

Run(file, q) ==
    \E order \in OrdersFor(file), o1 \in CommentaryOutcomes, o2 \in ChatOutcomes(q) :
      \E res \in {Script(client, file, session_state, q, order, o1, o2)} :
        /\ nrequests + res.calls <= MaxRequests
        /\ uploaded_file' = file
        /\ question' = q
        /\ session_state' = res.session_state
        /\ nrequests' = nrequests + res.calls
        /\ outcomes' = outcomes \o res.asked
        /\ df' = res.df
        /\ summary' = res.summary
        /\ totals' = res.totals
        /\ best_item' = res.best_item
        /\ worst_item' = res.worst_item
        /\ ai_text' = res.ai_text
        /\ messages' = res.messages
        /\ shown' = res.shown
        /\ fault' = res.fault
        /\ UNCHANGED client

----------------------------------------------------------------------------
(* Interactions *)

Upload == \E f \in Files : Run(f, NoQuestion)

ClearFile == uploaded_file # NoFile /\ Run(NoFile, NoQuestion)

Rerun == Run(uploaded_file, NoQuestion)

Ask ==
    /\ "chat_input" \in shown
    /\ Len(outcomes) < MaxQuestions
    /\ \E q \in Questions : Run(uploaded_file, q)

Idle ==
    /\ uploaded_file = NoFile
    /\ session_state = NoSession
    /\ nrequests = 0
    /\ outcomes = <<>>
    /\ df = NoDf
    /\ summary = <<>>
    /\ totals = NoTotals
    /\ best_item = NoItem
    /\ worst_item = NoItem
    /\ ai_text = NoText
    /\ question = NoQuestion
    /\ messages = <<>>
    /\ shown = {"info"}
    /\ fault = "none"

Init == client \in BOOLEAN /\ Idle

Next == Upload \/ ClearFile \/ Rerun \/ Ask

Spec == Init /\ [][Next]_vars

\* The aggregation alone, over every table within the bounds.
InitAgg ==
    /\ client = FALSE
    /\ Idle!2 /\ Idle!3 /\ Idle!4 /\ Idle!5 /\ Idle!6 /\ Idle!7 /\ Idle!8
    /\ Idle!9 /\ Idle!10 /\ Idle!11 /\ Idle!12 /\ Idle!14
    /\ \E t \in Tables : uploaded_file = TableFile(t)
    /\ shown = {}

NextAgg == Rerun

SpecAgg == InitAgg /\ [][NextAgg]_vars

----------------------------------------------------------------------------
(* Properties *)

History == session_state["chat_history"]

HasHistory == "chat_history" \in DOMAIN session_state

AllOk(log) == \A i \in DOMAIN log : log[i] = "ok"

FileNames == {uploaded_file.rows[i]["Nama Barang"] : i \in 1..Len(uploaded_file.rows)}

\* Sum of price_col * quantity over the uploaded rows of one item, straight
\* from the uploaded table.
RECURSIVE Expected(_, _, _)
Expected(rows, names, price_col) ==
    IF rows = <<>> THEN 0
    ELSE (IF Head(rows)["Nama Barang"] \in names
          THEN Head(rows)[price_col] * Head(rows)["Jumlah Terjual"]
          ELSE 0) + Expected(Tail(rows), names, price_col)

\* C1: uploading a different file with the required columns leaves a history
\* of exactly the two seeded turns, the assistant turn being the commentary
\* of this run.
ChatResetsOnNewUpload ==
    [][(/\ HasHistory
        /\ uploaded_file' # uploaded_file
        /\ "chat_input" \in shown')
       => /\ Len(History') = 2
          /\ History'[1] = Turn("system", Persona)
          /\ History'[2] = Turn("assistant", ai_text')]_vars

\* C2: the history has 2 turns when no question was asked, 2 + 2N turns after
\* N answered questions, and 2 + 2(N-1) + 1 turns when the Nth request failed
\* after N-1 answered ones.
ChatHistoryLength ==
    HasHistory =>
        LET N == Len(outcomes)
        IN  /\ N = 0 => /\ Len(History) = 2
                        /\ History[1].role = "system"
                        /\ History[2].role = "assistant"
            /\ AllOk(outcomes) => Len(History) = 2 + 2 * N
            /\ (N >= 1 /\ AllOk(SubSeq(outcomes, 1, N - 1)) /\ outcomes[N] = "fail")
                   => Len(History) = 2 + 2 * (N - 1) + 1

ChatHistoryLengthWitness ==
    /\ HasHistory
    /\ outcomes = <<"ok", "ok", "fail">>
    /\ Len(History) = 7

\* C3: the history starts with the single system turn followed by an
\* assistant turn; no other system turn occurs and no user turn comes before
\* index 2.
HistoryShape ==
    HasHistory =>
        /\ Len(History) >= 2
        /\ History[1].role = "system"
        /\ History[2].role = "assistant"
        /\ \A i \in 2..Len(History) : History[i].role \in {"user", "assistant"}

HistoryShapeWitness ==
    /\ HasHistory
    /\ Len(History) >= 4
    /\ "fail" \in {outcomes[i] : i \in DOMAIN outcomes}
    /\ uploaded_file = FileB
    /\ History[3].role = "user"

\* C4: without a credential every commentary is the disabled sentinel and no
\* request is ever issued to the service.
NoCredentialNoRequests ==
    ~client => /\ nrequests = 0
               /\ "ai_text" \in shown => ai_text = Sentinel

NoCredentialNoRequestsWitness ==
    /\ ~client
    /\ ai_text = Sentinel
    /\ question # NoQuestion
    /\ "chat_error" \in shown
    /\ Len(outcomes) >= 2

\* C5: a run on a table lacking a required column shows the warning and
\* nothing downstream: no derived columns, no summary, charts or narrative,
\* no request, and the session state untouched.
MissingColumnsSkipsDownstream ==
    [][(/\ uploaded_file' # NoFile
        /\ Parses(uploaded_file')
        /\ required_cols \ uploaded_file'.columns # {})
       => /\ shown' = {"preview", "warning"}
          /\ df'.columns = uploaded_file'.columns
          /\ summary' = <<>>
          /\ totals' = NoTotals
          /\ ai_text' = NoText
          /\ messages' = <<>>
          /\ nrequests' = nrequests
          /\ session_state' = session_state
          /\ fault' = "none"]_vars

MissingColumnsWitness ==
    /\ uploaded_file = FileMissing("Harga Jual")
    /\ "warning" \in shown
    /\ HasHistory
    /\ Len(History) >= 3

\* C6: no run ends in an unhandled exception.
NoFatalFailure == fault = "none"

\* C7: the Item Summary has one row per distinct item name and is ordered by
\* descending profit.
ItemSummarySorted ==
    "charts" \in shown =>
        /\ Len(summary) = Cardinality(FileNames)
        /\ {summary[i].Barang : i \in 1..Len(summary)} = FileNames
        /\ \A i \in 1..(Len(summary) - 1) :
               summary[i].Keuntungan >= summary[i + 1].Keuntungan

ItemSummarySortedWitness ==
    /\ "charts" \in shown
    /\ Len(uploaded_file.rows) = 3
    /\ Len(summary) = 2
    /\ summary[1].Keuntungan > summary[2].Keuntungan
    /\ uploaded_file.rows[1]["Nama Barang"] = summary[2].Barang

\* C8: every Item Summary row holds its item's sums of cost*quantity,
\* price*quantity and their difference; the Grand Totals are the sums of the
\* Item Summary, and their profit is revenue minus cost.
SumsAgree ==
    "charts" \in shown =>
        /\ \A i \in 1..Len(summary) :
             LET n == {summary[i].Barang}
             IN  /\ summary[i].Total_Modal = Expected(uploaded_file.rows, n, "Harga Modal")
                 /\ summary[i].Total_Penjualan = Expected(uploaded_file.rows, n, "Harga Jual")
                 /\ summary[i].Keuntungan = summary[i].Total_Penjualan - summary[i].Total_Modal
        /\ totals.total_modal = Expected(uploaded_file.rows, Names, "Harga Modal")
        /\ totals.total_penjualan = Expected(uploaded_file.rows, Names, "Harga Jual")
        /\ totals.total_keuntungan = totals.total_penjualan - totals.total_modal
        /\ totals.total_keuntungan = ColumnSum(summary, "Keuntungan")

SumsAgreeWitness ==
    /\ "charts" \in shown
    /\ Len(uploaded_file.rows) = 3
    /\ Len(summary) = 2
    /\ totals.total_keuntungan < 0
    /\ totals.total_modal > 3

\* C9: the best item is the first summary row and has maximum profit, the
\* worst item is the last row and has minimum profit; with one distinct item
\* both are that item and the report is produced.
BestAndWorst ==
    /\ "commentary" \in shown =>
          /\ best_item = summary[1]
          /\ worst_item = summary[Len(summary)]
          /\ \A i \in 1..Len(summary) :
                /\ best_item.Keuntungan >= summary[i].Keuntungan
                /\ worst_item.Keuntungan <= summary[i].Keuntungan
    /\ ("preview" \in shown /\ Cardinality(FileNames) = 1) =>
          /\ fault = "none"
          /\ "commentary" \in shown
          /\ best_item = worst_item
          /\ best_item.Barang \in FileNames

BestAndWorstWitness ==
    /\ "commentary" \in shown
    /\ Len(uploaded_file.rows) >= 2
    /\ Cardinality(FileNames) = 1
    /\ best_item = worst_item
    /\ best_item.Keuntungan < 0

\* C10: on a question the user turn is appended first, the request carries
\* the whole history ending with that turn, and a reply is appended right
\* after it.
ChatSendsWholeHistory ==
    [][question' # NoQuestion
       => LET asked == Append(History, Turn("user", question'))
          IN  /\ HasHistory
              /\ client => messages' = asked
              /\ ~client => messages' = <<>>
              /\ "answer" \in shown'
                    => /\ messages' = asked
                       /\ Len(History') = Len(asked) + 1
                       /\ SubSeq(History', 1, Len(asked)) = asked
                       /\ History'[Len(History')].role = "assistant"
                       /\ History'[Len(History')].content \in Replies
              /\ "answer" \notin shown' => History' = asked]_vars

ChatSendsWholeHistoryWitness ==
    /\ question # NoQuestion
    /\ "answer" \in shown
    /\ Len(messages) = 5
    /\ Len(History) = 6

====
